---- MODULE Spec2Model ----
(***************************************************************************)
(* OpenBox falling-sand simulator (src/src/main.cpp): the grid, the brush, *)
(* the per-tick cell update and the save/load codec as a state machine.    *)
(*                                                                         *)
(* Temperatures are floats in the program; here they are fixed-point       *)
(* integers in units of 1/TEMP_UNIT degree, and every float expression is  *)
(* evaluated with one flooring division at the end.  The fields mass,      *)
(* conductivity and viscosity of ParticleProperties are never read by the  *)
(* program and are left out; camera, wind and showDebug never touch the    *)
(* grid and are left out as well.                                          *)
(***************************************************************************)
EXTENDS Integers, Sequences, FiniteSets, TLC

(***************************************************************************)
(* Bounds of the model.                                                    *)
(***************************************************************************)
\* main.cpp:13 has GRID_WIDTH = 160; the model runs on a narrower grid.
GRID_WIDTH == 4
\* main.cpp:14 has GRID_HEIGHT = 90; the model runs on a lower grid.
GRID_HEIGHT == 5
\* Ticks (calls of UpdateParticles) per behaviour.
MaxTicks == 3
\* Largest lifetime a scene gives its Fire cell.
MaxLife == 3
\* Ticks per behaviour that takes input events.
MaxFrames == 1
\* Input events per behaviour that starts at program start.
MaxOps == 2
\* Input events per behaviour that starts from a scene.
MaxKeys == 3
\* Ticks per behaviour of a cooling scene.
MaxCoolTicks == 1100
\* Largest brush size the "]" key is pressed up to (the program stops at 20).
MaxBrush == 3
\* The most random draws that succeed within one HandleParticleInteractions call.
MaxHits == 2

(***************************************************************************)
(* Program constants.                                                      *)
(***************************************************************************)
\* Fixed-point unit: temperature 1.0f is TEMP_UNIT.
TEMP_UNIT == 100
\* COOLING_RATE = 0.05f, in 1/TEMP_UNIT degrees.
COOLING_RATE == 5
\* TEMPERATURE_SPREAD = 0.2f as SPREAD_NUM / SPREAD_DEN.
SPREAD_NUM == 2
SPREAD_DEN == 10
\* The literal 20 of UpdateTemperature's natural cooling.
AMBIENT == 20 * TEMP_UNIT
\* The literal 1700 of the Sand + Heat = Glass reaction.
GLASS_POINT == 1700 * TEMP_UNIT
\* The literal 800 of Lava cooling to Metal.
METAL_POINT == 800 * TEMP_UNIT
\* The literal 0 of Water freezing.
FREEZE_POINT == 0

ParticleType ==
    {"EMPTY", "SAND", "WATER", "WALL", "FIRE", "SMOKE", "STEAM", "LAVA",
     "ICE", "OIL", "ACID", "WOOD", "PLANT", "SALT", "GLASS", "METAL"}

Props(c, m, f, t, l) ==
    [color |-> c, movable |-> m, flammable |-> f, temperature |-> t, lifetime |-> l]

\* std::unordered_map::operator[] on a key that is not in the table (EMPTY)
\* inserts a value-initialised ParticleProperties: every field zero.
particleProps(type) ==
    CASE type = "SAND"  -> Props("GOLD", TRUE, FALSE, 20 * TEMP_UNIT, -1)
      [] type = "WATER" -> Props("BLUE", TRUE, FALSE, 20 * TEMP_UNIT, -1)
      [] type = "WALL"  -> Props("DARKGRAY", FALSE, FALSE, 20 * TEMP_UNIT, -1)
      [] type = "FIRE"  -> Props("RED", TRUE, FALSE, 800 * TEMP_UNIT, 100)
      [] type = "SMOKE" -> Props("DARKGRAY", TRUE, FALSE, 100 * TEMP_UNIT, 200)
      [] type = "STEAM" -> Props("LIGHTGRAY", TRUE, FALSE, 100 * TEMP_UNIT, 150)
      [] type = "LAVA"  -> Props("ORANGE", TRUE, FALSE, 1000 * TEMP_UNIT, -1)
      [] type = "ICE"   -> Props("SKYBLUE", FALSE, FALSE, (-10) * TEMP_UNIT, -1)
      [] type = "OIL"   -> Props("BROWN", TRUE, TRUE, 20 * TEMP_UNIT, -1)
      [] type = "ACID"  -> Props("GREEN", TRUE, FALSE, 20 * TEMP_UNIT, -1)
      [] type = "WOOD"  -> Props("BEIGE", FALSE, TRUE, 20 * TEMP_UNIT, -1)
      [] type = "PLANT" -> Props("DARKGREEN", FALSE, TRUE, 20 * TEMP_UNIT, -1)
      [] type = "SALT"  -> Props("WHITE", TRUE, FALSE, 20 * TEMP_UNIT, -1)
      [] type = "GLASS" -> Props("FADEWHITE", FALSE, FALSE, 20 * TEMP_UNIT, -1)
      [] type = "METAL" -> Props("LIGHTGRAY", FALSE, FALSE, 20 * TEMP_UNIT, -1)
      [] OTHER          -> Props("BLANK", FALSE, FALSE, 0, 0)

\* struct Particle with its default member initialisers.
DefaultParticle ==
    [type |-> "EMPTY", color |-> "BLACK", updated |-> FALSE,
     temperature |-> 20 * TEMP_UNIT, velocity_y |-> 0, velocity_x |-> 0,
     lifetime |-> -1]

\* The index set of the vector of vectors `grid`.
Pos == (0 .. GRID_WIDTH - 1) \X (0 .. GRID_HEIGHT - 1)

\* The bounds test with the upper limits included.
IsValidPositionInclusive(x, y) ==
    x >= 0 /\ x <= GRID_WIDTH /\ y >= 0 /\ y <= GRID_HEIGHT

IsValidPosition(x, y) ==
    x >= 0 /\ x < GRID_WIDTH /\ y >= 0 /\ y < GRID_HEIGHT

\* What an index outside the vectors yields: no particle of the grid.
Outside ==
    [type |-> "OUTSIDE", color |-> "NONE", updated |-> FALSE,
     temperature |-> 0, velocity_y |-> 0, velocity_x |-> 0, lifetime |-> 0]

\* grid[x][y] read.
Cell(g, x, y) ==
    IF <<x, y>> \in DOMAIN g THEN g[<<x, y>>] ELSE Outside

\* grid[x][y] = v.
Put(g, x, y, v) ==
    IF <<x, y>> \in DOMAIN g THEN [g EXCEPT ![<<x, y>>] = v] ELSE g

InitializeGrid ==
    [p \in Pos |->
        IF p[2] = GRID_HEIGHT - 1 \/ p[1] = 0 \/ p[1] = GRID_WIDTH - 1
        THEN [DefaultParticle EXCEPT !.type = "WALL",
                                     !.color = particleProps("WALL").color]
        ELSE DefaultParticle]

(***************************************************************************)
(* PlaceParticles (the brush).                                             *)
(***************************************************************************)
\* std::max(1, ...) and std::min(20, ...) of the brush keys.
BRUSH_MIN == 1
BRUSH_MAX == 20

\* Fixed-point unit of `float distance`.
DIST_UNIT == 100

RECURSIVE SqrtSearch(_, _, _)
\* The largest r in lo..hi with r * r <= n.
SqrtSearch(n, lo, hi) ==
    IF lo >= hi THEN lo
    ELSE LET mid == (lo + hi + 1) \div 2
         IN IF mid * mid <= n THEN SqrtSearch(n, mid, hi)
            ELSE SqrtSearch(n, lo, mid - 1)

\* sqrt(dx*dx + dy*dy), in 1/DIST_UNIT, rounded down.
Distance(dx, dy) ==
    LET n == (dx * dx + dy * dy) * DIST_UNIT * DIST_UNIT
    IN SqrtSearch(n, 0, (IF dx < 0 THEN -dx ELSE dx) * DIST_UNIT
                        + (IF dy < 0 THEN -dy ELSE dy) * DIST_UNIT)

\* The brush without its rim.
InBrushStrict(dx, dy, brush) ==
    Distance(dx, dy) < brush * DIST_UNIT

\* distance <= brushSize
InBrush(dx, dy, brush) ==
    Distance(dx, dy) <= brush * DIST_UNIT

\* The cells the two loops of PlaceParticles write.
BrushCells(x, y, brush) ==
    IF ~IsValidPosition(x, y) THEN {}
    ELSE {<<x + dx, y + dy>> : <<dx, dy>> \in
            {d \in (-brush .. brush) \X (-brush .. brush) :
                /\ IsValidPosition(x + d[1], y + d[2])
                /\ InBrush(d[1], d[2], brush)}}

\* The seven assignments of the loop body.
Placed(type) ==
    [type |-> type, color |-> particleProps(type).color,
     temperature |-> particleProps(type).temperature,
     velocity_x |-> 0, velocity_y |-> 0,
     lifetime |-> particleProps(type).lifetime, updated |-> FALSE]

PlaceParticles(g, x, y, type, brush) ==
    LET cells == BrushCells(x, y, brush)
    IN [p \in DOMAIN g |-> IF p \in cells THEN Placed(type) ELSE g[p]]

(***************************************************************************)
(* The cell update: UpdateParticle and the four stages it calls.           *)
(***************************************************************************)
\* The in-bounds cells of the 3x3 loops (dx, dy in -1..1, the cell itself
\* included).
Nbrs(x, y) ==
    {<<x + d[1], y + d[2]>> : d \in
        {e \in (-1 .. 1) \X (-1 .. 1) : IsValidPosition(x + e[1], y + e[2])}}

\* y < GRID_HEIGHT - 1
BelowInGrid(y) ==
    y < GRID_HEIGHT - 1

\* y < GRID_HEIGHT - 1 && grid[x][y + 1].type == EMPTY
CanFall(g, x, y) ==
    BelowInGrid(y) /\ Cell(g, x, y + 1).type = "EMPTY"

\* IsValidPosition(tx, ty) && grid[tx][ty].type == EMPTY
CanEnter(g, tx, ty) ==
    IsValidPosition(tx, ty) /\ Cell(g, tx, ty).type = "EMPTY"

\* Sand that tries the two diagonals before the cell below.
MoveTargetDiagonalFirst(g, x, y, dir) ==
    LET current == Cell(g, x, y)
    IN IF ~particleProps(current.type).movable THEN <<x, y>>
       ELSE IF current.type = "SAND" /\ CanEnter(g, x + dir, y + 1)
            THEN <<x + dir, y + 1>>
       ELSE IF current.type = "SAND" /\ CanEnter(g, x - dir, y + 1)
            THEN <<x - dir, y + 1>>
       ELSE IF CanFall(g, x, y) THEN <<x, y + 1>>
       ELSE <<x, y>>

\* The cell UpdatePhysics swaps grid[x][y] with; <<x, y>> when it swaps nothing.
\* dir is the value of GetRandomValue(0, 1) * 2 - 1.
MoveTarget(g, x, y, dir) ==
    LET current == Cell(g, x, y)
    IN IF ~particleProps(current.type).movable THEN <<x, y>>
       ELSE IF CanFall(g, x, y) THEN <<x, y + 1>>
       ELSE IF current.type = "WATER" \/ current.type = "OIL"
            THEN IF CanEnter(g, x + dir, y) THEN <<x + dir, y>>
                 ELSE IF CanEnter(g, x - dir, y) THEN <<x - dir, y>>
                 ELSE <<x, y>>
       ELSE IF current.type = "SAND"
            THEN IF CanEnter(g, x + dir, y + 1) THEN <<x + dir, y + 1>>
                 ELSE IF CanEnter(g, x - dir, y + 1) THEN <<x - dir, y + 1>>
                 ELSE <<x, y>>
       ELSE <<x, y>>

\* The grid indices UpdatePhysics evaluates (short-circuit && included).
PhysicsTouched(g, x, y, dir) ==
    LET current == Cell(g, x, y)
        below == IF BelowInGrid(y) THEN {<<x, y + 1>>} ELSE {}
        side(tx, ty) == IF IsValidPosition(tx, ty) THEN {<<tx, ty>>} ELSE {}
    IN IF ~particleProps(current.type).movable THEN {<<x, y>>}
       ELSE IF CanFall(g, x, y) THEN {<<x, y>>} \cup below
       ELSE IF current.type = "WATER" \/ current.type = "OIL"
            THEN {<<x, y>>} \cup below \cup side(x + dir, y)
                 \cup (IF CanEnter(g, x + dir, y) THEN {} ELSE side(x - dir, y))
       ELSE IF current.type = "SAND"
            THEN {<<x, y>>} \cup below \cup side(x + dir, y + 1)
                 \cup (IF CanEnter(g, x + dir, y + 1) THEN {}
                       ELSE side(x - dir, y + 1))
       ELSE {<<x, y>>} \cup below

\* std::swap(grid[x][y], grid[tx][ty]): the whole struct, flag included.
\* A copy into the target cell that leaves the cell it came from as it was.
SwapCopy(g, x, y, tx, ty) ==
    Put(g, tx, ty, Cell(g, x, y))

\* A swap after which the particle that moved counts as not yet updated.
SwapUnmarked(g, x, y, tx, ty) ==
    Put(Put(g, x, y, Cell(g, tx, ty)), tx, ty,
        [Cell(g, x, y) EXCEPT !.updated = FALSE])

Swap(g, x, y, tx, ty) ==
    Put(Put(g, x, y, Cell(g, tx, ty)), tx, ty, Cell(g, x, y))

\* `current` is a reference to grid[x][y]: after the swap it names the particle
\* that came in, and that is the one whose velocities are reset.
UpdatePhysics(g, x, y, dir) ==
    LET t == MoveTarget(g, x, y, dir)
    IN IF t = <<x, y>> THEN g
       ELSE LET s == Swap(g, x, y, t[1], t[2])
            IN Put(s, x, y, [Cell(s, x, y) EXCEPT !.velocity_x = 0,
                                                  !.velocity_y = 0])

RECURSIVE SumTemperature(_, _)
SumTemperature(g, cells) ==
    IF cells = {} THEN 0
    ELSE LET p == CHOOSE q \in cells : TRUE
         IN Cell(g, p[1], p[2]).temperature + SumTemperature(g, cells \ {p})

\* avgTemp starts as the cell's own temperature with count 1, and the loop
\* adds every in-bounds cell of the 3x3 block, the cell itself among them.
TemperatureCount(x, y) ==
    1 + Cardinality(Nbrs(x, y))

TemperatureSum(g, x, y) ==
    Cell(g, x, y).temperature + SumTemperature(g, Nbrs(x, y))

\* The blend without the natural cooling step.
NewTemperatureNoCooling(g, x, y) ==
    LET old == Cell(g, x, y).temperature
        count == TemperatureCount(x, y)
    IN (SPREAD_NUM * TemperatureSum(g, x, y)
        + (SPREAD_DEN - SPREAD_NUM) * old * count) \div (SPREAD_DEN * count)

\* avgTemp * SPREAD + current * (1 - SPREAD), then the natural cooling step.
NewTemperature(g, x, y) ==
    LET old == Cell(g, x, y).temperature
        count == TemperatureCount(x, y)
        blended == (SPREAD_NUM * TemperatureSum(g, x, y)
                    + (SPREAD_DEN - SPREAD_NUM) * old * count)
                   \div (SPREAD_DEN * count)
    IN IF blended > AMBIENT THEN blended - COOLING_RATE
       ELSE IF blended < AMBIENT THEN blended + COOLING_RATE
       ELSE blended

UpdateTemperature(g, x, y) ==
    Put(g, x, y, [Cell(g, x, y) EXCEPT !.temperature = NewTemperature(g, x, y)])

\* The neighbours for which HandleParticleInteractions draws GetRandomValue:
\* flammable ones for Fire, dissolvable ones for Acid.
HitCandidates(g, x, y) ==
    LET type == Cell(g, x, y).type
    IN IF type = "FIRE"
       THEN {p \in Nbrs(x, y) : particleProps(Cell(g, p[1], p[2]).type).flammable}
       ELSE IF type = "ACID"
       THEN {p \in Nbrs(x, y) :
                Cell(g, p[1], p[2]).type \notin {"EMPTY", "ACID", "GLASS"}}
       ELSE {}

\* Whether the smoke draw of a Fire cell can change anything.
SmokeTarget(g, x, y) ==
    Cell(g, x, y).type = "FIRE" /\ CanEnter(g, x, y - 1)

\* A conversion that also gives the cell its new kind's default lifetime.
SetTypeFresh(g, cells, type) ==
    [p \in DOMAIN g |->
        IF p \in cells
        THEN [g[p] EXCEPT !.type = type, !.lifetime = particleProps(type).lifetime]
        ELSE g[p]]

\* neighbor.type = type, or current.type = type: no other field is assigned.
SetType(g, cells, type) ==
    [p \in DOMAIN g |-> IF p \in cells THEN [g[p] EXCEPT !.type = type] ELSE g[p]]

\* hits: the candidates whose draw came out below the threshold (10 for Fire,
\* 20 for Acid); smoke: whether GetRandomValue(0, 100) < 5.
HandleParticleInteractions(g, x, y, hits, smoke) ==
    LET type == Cell(g, x, y).type
        ofType(t) == {p \in Nbrs(x, y) : Cell(g, p[1], p[2]).type = t}
    IN CASE type = "WATER" ->
              LET g1 == SetType(g, ofType("FIRE"), "STEAM")
              IN IF Cell(g1, x, y).temperature < FREEZE_POINT
                 THEN SetType(g1, {<<x, y>>}, "ICE") ELSE g1
         [] type = "FIRE" ->
              LET g1 == SetType(g, hits \cap HitCandidates(g, x, y), "FIRE")
              IN IF smoke /\ CanEnter(g1, x, y - 1)
                 THEN SetType(g1, {<<x, y - 1>>}, "SMOKE") ELSE g1
         [] type = "LAVA" ->
              LET g1 == SetType(g, ofType("WATER"), "STEAM")
              IN IF Cell(g1, x, y).temperature < METAL_POINT
                 THEN SetType(g1, {<<x, y>>}, "METAL") ELSE g1
         [] type = "ACID" ->
              SetType(g, hits \cap HitCandidates(g, x, y), "EMPTY")
         [] OTHER -> g

ProcessChemicalReactions(g, x, y) ==
    LET current == Cell(g, x, y)
        salt == {p \in Nbrs(x, y) : Cell(g, p[1], p[2]).type = "SALT"}
    IN IF current.type = "SAND" /\ current.temperature > GLASS_POINT
       THEN SetType(g, {<<x, y>>}, "GLASS")
       ELSE IF current.type = "WATER" /\ salt # {}
       THEN Put(SetType(g, salt, "EMPTY"), x, y,
                [current EXCEPT !.color = "SKYBLUE"])
       ELSE g

\* Whether UpdateParticle returns at its first line.
Skipped(g, x, y) ==
    ~IsValidPosition(x, y) \/ Cell(g, x, y).updated

\* The expiry test with < in place of <=.
ExpiredOffByOne(g, x, y) ==
    Cell(g, x, y).lifetime > 0 /\ Cell(g, x, y).lifetime - 1 < 0

\* Whether UpdateParticle returns from the lifetime stage: lifetime > 0, then
\* --lifetime <= 0.
Expired(g, x, y) ==
    Cell(g, x, y).lifetime > 0 /\ Cell(g, x, y).lifetime - 1 <= 0

\* UpdateParticle up to and including the lifetime stage: the flag, the
\* decrement, the conversion to Empty.
AfterLifetime(g, x, y) ==
    LET current == Cell(g, x, y)
        marked == [current EXCEPT !.updated = TRUE]
    IN IF current.lifetime > 0
       THEN Put(g, x, y, [marked EXCEPT
                !.lifetime = current.lifetime - 1,
                !.type = IF Expired(g, x, y) THEN "EMPTY" ELSE current.type])
       ELSE Put(g, x, y, marked)

\* The temperature stage run where the particle has moved to.
AfterTemperatureAtTarget(g, x, y, dir) ==
    LET a == AfterLifetime(g, x, y)
        t == MoveTarget(a, x, y, dir)
    IN UpdateTemperature(UpdatePhysics(a, x, y, dir), t[1], t[2])

\* The grid after the movement and temperature stages.
AfterTemperature(g, x, y, dir) ==
    UpdateTemperature(UpdatePhysics(AfterLifetime(g, x, y), x, y, dir), x, y)

UpdateParticle(g, x, y, dir, hits, smoke) ==
    IF Skipped(g, x, y) THEN g
    ELSE IF Expired(g, x, y) THEN AfterLifetime(g, x, y)
    ELSE ProcessChemicalReactions(
            HandleParticleInteractions(AfterTemperature(g, x, y, dir),
                                       x, y, hits, smoke), x, y)

\* Every grid index one call of UpdateParticle evaluates.
UpdateTouched(g, x, y, dir) ==
    IF ~IsValidPosition(x, y) THEN {}
    ELSE IF Cell(g, x, y).updated \/ Expired(g, x, y) THEN {<<x, y>>}
    ELSE PhysicsTouched(AfterLifetime(g, x, y), x, y, dir) \cup Nbrs(x, y)

(***************************************************************************)
(* State.                                                                  *)
(***************************************************************************)
VARIABLES
    grid,          \* std::vector<std::vector<Particle>> grid
    currentType,   \* ParticleType currentType
    brushSize,     \* int brushSize
    paused,        \* bool paused
    symmetryMode,  \* bool symmetryMode
    file,          \* sandbox_save.dat: whether it exists, and its records
    pc,            \* "idle" between frames, "scan" inside UpdateParticles
    sx,            \* loop variable x of UpdateParticles
    sy,            \* loop variable y of UpdateParticles
    ticks,         \* history: completed calls of UpdateParticles
    ops,           \* history: input events handled
    lastOp,        \* history: the last input event and its arguments
    saved,         \* history: the grid as it was at the last successful save
    trip,          \* history: 1 after a save, 2 after a reset then, 3 after a load then
    seen,          \* history: per particle, how often this tick it was updated
    oob,           \* history: some grid index evaluated so far was out of range
    zeroRun,       \* history: a non-Empty lifetime-0 particle went past the lifetime stage
    visits,        \* history: the (x, y) of the UpdateParticle calls of the tick, in order
    scen           \* history: the scene the behaviour started from

vars ==
    <<grid, currentType, brushSize, paused, symmetryMode, file, pc, sx, sy,
      ticks, ops, lastOp, saved, trip, seen, oob, zeroRun, visits, scen>>

\* fopen(filename, "rb") finds nothing to open.
NoFile ==
    [exists |-> FALSE, data |-> <<>>]

NoOp == [op |-> "none", x |-> 0, y |-> 0, type |-> "EMPTY", brush |-> 0,
         mirror |-> FALSE, ok |-> FALSE]

\* No call of the tick yet: every particle is where the tick found it.
Unseen == [p \in Pos |-> [entries |-> 0, diffs |-> 0, moves |-> 0, from |-> p]]

Boot == [kind |-> "boot", x |-> 0, y |-> 0, x2 |-> 0, y2 |-> 0, life |-> 0,
         hot |-> FALSE, frames |-> MaxFrames]

\* The globals as their initialisers (main.cpp:63-71) leave them.
Globals ==
    /\ currentType = "SAND"
    /\ brushSize = 3
    /\ paused = FALSE
    /\ symmetryMode = FALSE
    /\ pc = "idle"
    /\ sx = 0
    /\ sy = GRID_HEIGHT - 1
    /\ ticks = 0
    /\ ops = 0
    /\ lastOp = NoOp
    /\ saved = InitializeGrid
    /\ trip = 0
    /\ seen = Unseen
    /\ oob = FALSE
    /\ zeroRun = FALSE
    /\ visits = <<>>

\* main() up to the frame loop.
Init ==
    /\ Globals
    /\ grid = InitializeGrid
    /\ file = NoFile
    /\ scen = Boot

(***************************************************************************)
(* UpdateParticles, one step per iteration of its loops.                   *)
(***************************************************************************)
\* A tick that leaves the flags as they are.
KeepUpdated(g) ==
    g

\* The first pair of loops: every updated flag cleared.
ResetUpdated(g) ==
    [p \in DOMAIN g |-> [g[p] EXCEPT !.updated = FALSE]]

\* The subsets of the candidates whose draws succeed in one call.
RandomSubsets(cands) ==
    {h \in SUBSET cands : Cardinality(h) <= MaxHits}

Bump(s, p, f) ==
    IF p \in DOMAIN s
    THEN [s EXCEPT ![p] = IF f = "entries"
                          THEN [@ EXCEPT !.entries = @ + 1]
                          ELSE [@ EXCEPT !.diffs = @ + 1]]
    ELSE s

\* The history of UpdateParticle(x, y): the particle that passed the guard has
\* entered the pipeline once more; the particle that is at (x, y) after the
\* movement stage has been through the temperature, interaction and reaction
\* stages once more.  The counters travel with the particles, as does the
\* position the tick found each particle at; a swap is a move of both.
SeenAfter(s, g, x, y, dir) ==
    IF Skipped(g, x, y) THEN s
    ELSE IF Expired(g, x, y) THEN Bump(s, <<x, y>>, "entries")
    ELSE LET t == MoveTarget(AfterLifetime(g, x, y), x, y, dir)
             s1 == Bump(s, <<x, y>>, "entries")
             s2 == IF t \in DOMAIN s1 /\ t # <<x, y>>
                   THEN [s1 EXCEPT
                           ![<<x, y>>] = [s1[t] EXCEPT !.moves = @ + 1],
                           ![t] = [s1[<<x, y>>] EXCEPT !.moves = @ + 1]]
                   ELSE s1
         IN Bump(s2, <<x, y>>, "diffs")

\* A particle that is not Empty and has lifetime 0 goes past the lifetime stage.
ZeroLifetimeRun(g, x, y) ==
    /\ ~Skipped(g, x, y)
    /\ Cell(g, x, y).lifetime = 0
    /\ Cell(g, x, y).type # "EMPTY"

\* Ticks per behaviour.
TickLimit ==
    scen.frames

TickBegin ==
    /\ pc = "idle"
    /\ ~paused
    /\ ticks < TickLimit
    /\ grid' = ResetUpdated(grid)
    /\ trip' = IF trip = 3 THEN 0 ELSE trip
    /\ pc' = "scan"
    /\ sx' = 0
    /\ sy' = GRID_HEIGHT - 1
    /\ seen' = Unseen
    /\ lastOp' = NoOp
    /\ visits' = <<>>
    /\ UNCHANGED <<currentType, brushSize, paused, symmetryMode, file, ticks,
                   ops, saved, oob, zeroRun, scen>>

\* One call UpdateParticle(sx, sy) and the loop increments after it.
TickCell ==
    /\ pc = "scan"
    /\ \E dir \in {-1, 1} :
         LET runs == ~Skipped(grid, sx, sy) /\ ~Expired(grid, sx, sy)
             pre == IF runs THEN AfterTemperature(grid, sx, sy, dir) ELSE grid
             cands == IF runs THEN HitCandidates(pre, sx, sy) ELSE {}
             draws == IF runs /\ SmokeTarget(pre, sx, sy) THEN BOOLEAN ELSE {FALSE}
         IN \E hits \in RandomSubsets(cands), smoke \in draws :
              /\ grid' = UpdateParticle(grid, sx, sy, dir, hits, smoke)
              /\ seen' = SeenAfter(seen, grid, sx, sy, dir)
              /\ oob' = (oob \/ ~(UpdateTouched(grid, sx, sy, dir) \subseteq Pos))
              /\ zeroRun' = (zeroRun \/ ZeroLifetimeRun(grid, sx, sy))
    /\ visits' = Append(visits, <<sx, sy>>)
    /\ IF sx < GRID_WIDTH - 1
       THEN sx' = sx + 1 /\ sy' = sy /\ pc' = "scan" /\ ticks' = ticks
       ELSE IF sy > 0
       THEN sx' = 0 /\ sy' = sy - 1 /\ pc' = "scan" /\ ticks' = ticks
       ELSE sx' = 0 /\ sy' = GRID_HEIGHT - 1 /\ pc' = "idle" /\ ticks' = ticks + 1
    /\ UNCHANGED <<currentType, brushSize, paused, symmetryMode, file, ops,
                   lastOp, saved, trip, scen>>

(***************************************************************************)
(* Scenes: grids the program arrives at, by LoadFromFile of a save file    *)
(* that holds the scene or by the erase and paint a scene names, and that  *)
(* the frame loop then runs without painting.                              *)
(***************************************************************************)
Interior ==
    {p \in Pos : p[1] > 0 /\ p[1] < GRID_WIDTH - 1 /\ p[2] < GRID_HEIGHT - 1}

Scene(kind, p, q, life, hot) ==
    [kind |-> kind, x |-> p[1], y |-> p[2], x2 |-> q[1], y2 |-> q[2],
     life |-> life, hot |-> hot, frames |-> MaxTicks]

\* One Sand cell at (x, y); the first non-Empty cell below it is at (x, y2):
\* a Wall put there, or the floor.
GravityScenes ==
    {Scene("gravity", p, q, 0, FALSE) : <<p, q>> \in
        {pq \in Interior \X Pos : pq[2][1] = pq[1][1] /\ pq[2][2] > pq[1][2]}}

\* One Fire cell at (x, y) with lifetime life.
FireScenes ==
    {Scene("fire", p, p, life, FALSE) : <<p, life>> \in Interior \X (1 .. MaxLife)}

\* One Sand cell at (x, y) with temperature 1701; when hot, every other cell
\* has that temperature as well.
GlassScenes ==
    {Scene("glass", p, p, 0, hot) : <<p, hot>> \in Interior \X BOOLEAN}

\* One Water cell at (x, y) and one Salt cell at (x2, y2) next to it.
SaltScenes ==
    {Scene("salt", p, q, 0, FALSE) : <<p, q>> \in
        {pq \in Interior \X Interior :
            pq[2] # pq[1] /\ pq[2] \in Nbrs(pq[1][1], pq[1][2])}}

\* Erase with the smallest brush at (x, y), then paint Fire with it one row
\* lower, at (x2, y2).
SmokeScenes ==
    {Scene("smoke", p, <<p[1], p[2] + 1>>, 0, FALSE) : p \in Interior}

Scenes ==
    GravityScenes \cup FireScenes \cup GlassScenes \cup SaltScenes
    \cup SmokeScenes

SceneGrid(s) ==
    LET base == InitializeGrid
        first(type) == Placed(type)
    IN CASE s.kind = "gravity" ->
              Put(Put(base, s.x2, s.y2, Placed("WALL")), s.x, s.y, Placed("SAND"))
         [] s.kind = "fire" ->
              Put(base, s.x, s.y, [Placed("FIRE") EXCEPT !.lifetime = s.life])
         [] s.kind = "glass" ->
              LET warm == IF s.hot
                          THEN [p \in Pos |->
                                  [base[p] EXCEPT !.temperature = 1701 * TEMP_UNIT]]
                          ELSE base
              IN Put(warm, s.x, s.y,
                     [Placed("SAND") EXCEPT !.temperature = 1701 * TEMP_UNIT])
         [] s.kind = "salt" ->
              Put(Put(base, s.x, s.y, Placed("WATER")), s.x2, s.y2, Placed("SALT"))
         [] s.kind = "smoke" ->
              PlaceParticles(PlaceParticles(base, s.x, s.y, "EMPTY", BRUSH_MIN),
                             s.x2, s.y2, "FIRE", BRUSH_MIN)
         [] OTHER -> base

InitScene ==
    /\ Globals
    /\ file = NoFile
    /\ \E s \in Scenes :
         /\ scen = s
         /\ grid = SceneGrid(s)

NextScene ==
    \/ TickBegin
    \/ TickCell

SpecScene ==
    InitScene /\ [][NextScene]_vars

(***************************************************************************)
(* Properties of the tick, on the scenes.                                  *)
(***************************************************************************)
CellsOf(type) ==
    {p \in Pos : grid[p].type = type}

\* The number of Empty cells between the scene's Sand cell and the first
\* non-Empty cell below it.
EmptyBelow ==
    scen.y2 - scen.y - 1

\* C1 (gravity determinism): a single Sand cell with n Empty cells directly
\* below it and a non-Empty cell below those is, after k <= n ticks, exactly k
\* rows lower in the same column; inside the tick that follows it is on one of
\* the two rows the tick takes it between, so that no row is skipped.
GravityDeterminism ==
    scen.kind = "gravity" =>
        /\ (pc = "idle" /\ ticks <= EmptyBelow) =>
              CellsOf("SAND") = {<<scen.x, scen.y + ticks>>}
        /\ (pc = "scan" /\ ticks < EmptyBelow) =>
              \/ CellsOf("SAND") = {<<scen.x, scen.y + ticks>>}
              \/ CellsOf("SAND") = {<<scen.x, scen.y + ticks + 1>>}

GravityWitness ==
    /\ scen.kind = "gravity"
    /\ EmptyBelow >= 2
    /\ pc = "idle"
    /\ ticks = EmptyBelow
    /\ CellsOf("SAND") = {<<scen.x, scen.y2 - 1>>}

\* C2 (single processing): within one tick no particle, displaced Empty
\* records included, enters the update pipeline more than once, and none is put
\* through the temperature, interaction and reaction stages more than once.
SingleProcessing ==
    \A p \in Pos : seen[p].entries <= 1 /\ seen[p].diffs <= 1

\* C3 (lifetime expiry): a lone Fire cell with lifetime L is Fire, in its
\* column, with L - k ticks left after each of the first k < L ticks, and is
\* gone once L ticks are complete, whether or not it fell meanwhile.
LifetimeExpiry ==
    scen.kind = "fire" =>
        /\ (pc = "idle" /\ ticks < scen.life) =>
              \E p \in Pos :
                  /\ CellsOf("FIRE") = {p}
                  /\ p[1] = scen.x
                  /\ grid[p].lifetime = scen.life - ticks
        /\ (pc = "scan" /\ ticks < scen.life - 1) =>
              Cardinality(CellsOf("FIRE")) = 1
        /\ ticks >= scen.life => CellsOf("FIRE") = {}

LifetimeWitness ==
    /\ scen.kind = "fire"
    /\ scen.life >= 2
    /\ scen.y < GRID_HEIGHT - 2
    /\ pc = "idle"
    /\ ticks = scen.life
    /\ CellsOf("FIRE") = {}

\* C4 (Sand to Glass): a Sand cell whose temperature is 1701 when a tick
\* starts is Glass when that tick ends, whether it moved or not.
SandToGlass ==
    (scen.kind = "glass" /\ pc = "idle" /\ ticks = 1) =>
        /\ CellsOf("SAND") = {}
        /\ Cardinality(CellsOf("GLASS")) = 1

\* C5 (Water and Salt): a Water cell with a Salt cell among its 8 neighbours
\* when a tick starts: after the tick the Salt cell's position is Empty and the
\* Water cell is still Water and has the salt-water tint.
WaterSalt ==
    (scen.kind = "salt" /\ pc = "idle" /\ ticks = 1) =>
        /\ grid[<<scen.x2, scen.y2>>].type = "EMPTY"
        /\ Cardinality(CellsOf("WATER")) = 1
        /\ \A p \in CellsOf("WATER") : grid[p].color = "SKYBLUE"

(***************************************************************************)
(* HandleInput, one action per input event.                                *)
(***************************************************************************)
\* The materials of the keys 1 to 9.
KeyTypes ==
    {"SAND", "WATER", "WALL", "FIRE", "LAVA", "ICE", "OIL", "ACID", "WOOD"}

\* The cells mousePos / CELL_SIZE is drawn from: one beyond each edge of the
\* grid, two inside it, and one on its border.
MouseCells ==
    {<<-1, 1>>, <<GRID_WIDTH, 1>>, <<1, -1>>, <<1, GRID_HEIGHT>>,
     <<1, 1>>, <<GRID_WIDTH - 2, GRID_HEIGHT - 2>>, <<0, GRID_HEIGHT - 1>>}

Op(op, x, y, type, ok) ==
    [op |-> op, x |-> x, y |-> y, type |-> type, brush |-> brushSize,
     mirror |-> symmetryMode, ok |-> ok]

OpLimit ==
    IF scen.kind = "boot" THEN MaxOps ELSE MaxKeys

\* What every input event does to the history.
Input(op) ==
    /\ pc = "idle"
    /\ ops < OpLimit
    /\ ops' = ops + 1
    /\ lastOp' = op
    /\ UNCHANGED <<pc, sx, sy, ticks, seen, zeroRun, visits, scen>>

KeyType ==
    \E type \in KeyTypes :
        /\ Input(Op("key", 0, 0, type, TRUE))
        /\ currentType' = type
        /\ UNCHANGED <<grid, brushSize, paused, symmetryMode, file, saved, trip, oob>>

KeyLeftBracket ==
    /\ Input(Op("brush", 0, 0, "EMPTY", TRUE))
    /\ brushSize' = IF brushSize - 1 > BRUSH_MIN THEN brushSize - 1 ELSE BRUSH_MIN
    /\ UNCHANGED <<grid, currentType, paused, symmetryMode, file, saved, trip, oob>>

KeyRightBracket ==
    /\ brushSize < MaxBrush
    /\ Input(Op("brush", 0, 0, "EMPTY", TRUE))
    /\ brushSize' = IF brushSize + 1 < BRUSH_MAX THEN brushSize + 1 ELSE BRUSH_MAX
    /\ UNCHANGED <<grid, currentType, paused, symmetryMode, file, saved, trip, oob>>

KeySpace ==
    /\ Input(Op("pause", 0, 0, "EMPTY", TRUE))
    /\ paused' = ~paused
    /\ UNCHANGED <<grid, currentType, brushSize, symmetryMode, file, saved, trip, oob>>

KeyM ==
    /\ Input(Op("symmetry", 0, 0, "EMPTY", TRUE))
    /\ symmetryMode' = ~symmetryMode
    /\ UNCHANGED <<grid, currentType, brushSize, paused, file, saved, trip, oob>>

\* KEY_R: InitializeGrid().
KeyR ==
    /\ Input(Op("reset", 0, 0, "EMPTY", TRUE))
    /\ grid' = InitializeGrid
    /\ trip' = IF trip = 1 THEN 2 ELSE 0
    /\ UNCHANGED <<currentType, brushSize, paused, symmetryMode, file, saved, oob>>

\* fwrite of every grid[x][y], x outermost: record x * GRID_HEIGHT + y.
SaveToFile(g) ==
    [i \in 1 .. GRID_WIDTH * GRID_HEIGHT |->
        g[<<(i - 1) \div GRID_HEIGHT, (i - 1) % GRID_HEIGHT>>]]

\* A load that resets the cells the file has no record for.
LoadFromFileClearing(g, f) ==
    [p \in DOMAIN g |->
        IF p[1] * GRID_HEIGHT + p[2] + 1 <= Len(f)
        THEN f[p[1] * GRID_HEIGHT + p[2] + 1]
        ELSE InitializeGrid[p]]

\* The records read with y outermost.
LoadFromFileRowMajor(g, f) ==
    [p \in DOMAIN g |->
        IF p[2] * GRID_WIDTH + p[1] + 1 <= Len(f)
        THEN f[p[2] * GRID_WIDTH + p[1] + 1]
        ELSE g[p]]

\* fread into every grid[x][y], x outermost; a record the file does not hold
\* leaves its cell as it was.
LoadFromFile(g, f) ==
    [p \in DOMAIN g |->
        IF p[1] * GRID_HEIGHT + p[2] + 1 <= Len(f)
        THEN f[p[1] * GRID_HEIGHT + p[2] + 1]
        ELSE g[p]]

\* KEY_S; ok: whether fopen(filename, "wb") succeeds.
KeyS ==
    \E ok \in BOOLEAN :
        /\ Input(Op("save", 0, 0, "EMPTY", ok))
        /\ file' = IF ok THEN [exists |-> TRUE, data |-> SaveToFile(grid)] ELSE file
        /\ saved' = IF ok THEN grid ELSE saved
        /\ trip' = IF ok THEN 1 ELSE 0
        /\ UNCHANGED <<grid, currentType, brushSize, paused, symmetryMode, oob>>

\* How many records a save writes when fwrite stops early.
ShortCounts ==
    {0, GRID_HEIGHT + 2, GRID_WIDTH * GRID_HEIGHT - 1}

\* KEY_S when fopen succeeds and fwrite stops after n records; SaveToFile does
\* not look at what fwrite returns.
KeySTruncated ==
    \E n \in ShortCounts :
        /\ Input(Op("save", 0, 0, "EMPTY", TRUE))
        /\ file' = [exists |-> TRUE, data |-> SubSeq(SaveToFile(grid), 1, n)]
        /\ saved' = grid
        /\ trip' = 0
        /\ UNCHANGED <<grid, currentType, brushSize, paused, symmetryMode, oob>>

\* KEY_L; ok: whether fopen(filename, "rb") succeeds, which takes a file.
KeyL ==
    \E ok \in (IF file.exists THEN BOOLEAN ELSE {FALSE}) :
        /\ Input(Op("load", 0, 0, "EMPTY", ok))
        /\ grid' = IF ok THEN LoadFromFile(grid, file.data) ELSE grid
        /\ trip' = IF ok /\ trip = 2 THEN 3 ELSE 0
        /\ UNCHANGED <<currentType, brushSize, paused, symmetryMode, file, saved, oob>>

\* The brush without its mirror image.
PaintOnce(g, x, y, type, brush, mirror) ==
    PlaceParticles(g, x, y, type, brush)

\* PlaceParticles(x, y, type) and, in symmetry mode, its mirror image.
Paint(g, x, y, type, brush, mirror) ==
    LET once == PlaceParticles(g, x, y, type, brush)
    IN IF mirror THEN PlaceParticles(once, GRID_WIDTH - 1 - x, y, type, brush)
       ELSE once

PaintTouched(x, y, brush, mirror) ==
    BrushCells(x, y, brush)
    \cup (IF mirror THEN BrushCells(GRID_WIDTH - 1 - x, y, brush) ELSE {})

\* The left mouse button held at cell c.
MouseLeft ==
    \E c \in MouseCells :
        /\ Input(Op("paint", c[1], c[2], currentType, TRUE))
        /\ grid' = Paint(grid, c[1], c[2], currentType, brushSize, symmetryMode)
        /\ oob' = (oob \/ ~(PaintTouched(c[1], c[2], brushSize, symmetryMode)
                            \subseteq Pos))
        /\ trip' = 0
        /\ UNCHANGED <<currentType, brushSize, paused, symmetryMode, file, saved>>

\* The right mouse button held at cell c.
MouseRight ==
    \E c \in MouseCells :
        /\ Input(Op("erase", c[1], c[2], "EMPTY", TRUE))
        /\ grid' = Paint(grid, c[1], c[2], "EMPTY", brushSize, symmetryMode)
        /\ oob' = (oob \/ ~(PaintTouched(c[1], c[2], brushSize, symmetryMode)
                            \subseteq Pos))
        /\ trip' = 0
        /\ UNCHANGED <<currentType, brushSize, paused, symmetryMode, file, saved>>

\* The frame loop of main(): input events, and a tick when not paused.
Next ==
    \/ KeyType
    \/ KeyLeftBracket
    \/ KeyRightBracket
    \/ KeySpace
    \/ KeyM
    \/ KeyR
    \/ KeyS
    \/ KeyL
    \/ MouseLeft
    \/ MouseRight
    \/ TickBegin
    \/ TickCell

Spec ==
    Init /\ [][Next]_vars

\* Save, reset and load from a scene, with the ticks of the frames between.
NextPersist ==
    \/ KeyS
    \/ KeyR
    \/ KeyL
    \/ TickBegin
    \/ TickCell

\* The scenes whose particles have temperatures and lifetimes of their own,
\* run for MaxFrames ticks.
InitPersist ==
    /\ Globals
    /\ file = NoFile
    /\ \E s \in FireScenes \cup GlassScenes :
         /\ scen = [s EXCEPT !.frames = MaxFrames]
         /\ grid = SceneGrid(s)

SpecPersist ==
    InitPersist /\ [][NextPersist]_vars

(***************************************************************************)
(* The brush, persistence, bounds, the border and lifetime 0.              *)
(***************************************************************************)
\* The cells of the exact disc of radius r around (x, y).
Disc(x, y, r) ==
    {p \in Pos : (p[1] - x) * (p[1] - x) + (p[2] - y) * (p[2] - y) <= r * r}

\* A cell as a paint of material type leaves it.
Fresh(c, type) ==
    /\ c.type = type
    /\ c.temperature = particleProps(type).temperature
    /\ c.lifetime = particleProps(type).lifetime
    /\ c.updated = FALSE

\* The step is a paint or an erase without symmetry at an in-bounds centre.
PlainPaintStep ==
    /\ ops' = ops + 1
    /\ lastOp'.op \in {"paint", "erase"}
    /\ ~lastOp'.mirror
    /\ IsValidPosition(lastOp'.x, lastOp'.y)

\* C6 (brush containment): a paint or erase of material M with brush radius r
\* at an in-bounds centre, symmetry off, leaves exactly the in-bounds cells
\* with dx*dx + dy*dy <= r*r holding M with M's default temperature and
\* lifetime and a cleared updated flag, and every other cell as it was.
BrushContainment ==
    [][PlainPaintStep =>
         \A p \in Pos :
             IF p \in Disc(lastOp'.x, lastOp'.y, lastOp'.brush)
             THEN Fresh(grid'[p], lastOp'.type)
             ELSE grid'[p] = grid[p]]_vars

\* A paint of Sand with brush 2 at (1, 1): the disc is clipped by the grid's
\* edge, and cells inside the brush's square lie outside the disc.
BrushWitness ==
    /\ lastOp.op = "paint"
    /\ lastOp.brush = 2
    /\ ~lastOp.mirror
    /\ lastOp.type = "SAND"
    /\ <<lastOp.x, lastOp.y>> = <<1, 1>>
    /\ ops = 2
    /\ grid[<<1, 3>>].type = "SAND"
    /\ grid[<<3, 3>>].type # "SAND"

\* C7 (persistence round trip): after a save, a reset and a load that all
\* succeed, every cell has the kind, temperature and lifetime it had at the
\* save.
RoundTrip ==
    trip = 3 =>
        \A p \in Pos :
            /\ grid[p].type = saved[p].type
            /\ grid[p].temperature = saved[p].temperature
            /\ grid[p].lifetime = saved[p].lifetime

\* The round trip of a grid that is not the reset grid, in kinds, temperatures
\* and lifetimes.
RoundTripWitness ==
    /\ trip = 3
    /\ \E p \in Pos :
           /\ grid[p].type \notin {"EMPTY", "WALL"}
           /\ grid[p].temperature # InitializeGrid[p].temperature
           /\ grid[p].lifetime # InitializeGrid[p].lifetime

\* One cell beyond each edge and corner of the grid.
OutsideCells ==
    ((-1 .. GRID_WIDTH) \X (-1 .. GRID_HEIGHT)) \ Pos

\* C8 (bounds safety): no operation has indexed the grid outside
\* 0 <= x < GRID_WIDTH, 0 <= y < GRID_HEIGHT, and a paint or erase with an
\* out-of-bounds centre and an UpdateParticle with out-of-bounds coordinates
\* leave the whole grid as it is.
BoundsSafety ==
    /\ oob = FALSE
    /\ \A c \in OutsideCells :
           /\ \A dir \in {-1, 1} :
                  UpdateParticle(grid, c[1], c[2], dir, {}, FALSE) = grid
           /\ \A type \in {currentType, "EMPTY"} :
                  Paint(grid, c[1], c[2], type, brushSize, symmetryMode) = grid

\* After a tick that updated Sand in the corner of the grid, a paint with its
\* centre outside the grid.
BoundsWitness ==
    /\ ticks = 1
    /\ pc = "idle"
    /\ lastOp.op = "paint"
    /\ ~IsValidPosition(lastOp.x, lastOp.y)
    /\ grid[<<0, GRID_HEIGHT - 1>>].type = "SAND"
    /\ grid[<<0, GRID_HEIGHT - 1>>].updated

\* The left column, the right column and the bottom row.
Border ==
    {p \in Pos : p[1] = 0 \/ p[1] = GRID_WIDTH - 1 \/ p[2] = GRID_HEIGHT - 1}

\* C9 (border): every cell of the left column, the right column and the
\* bottom row is Wall.
BorderIsWall ==
    \A p \in Border : grid[p].type = "WALL"

\* C10 (lifetime 0): no cell that is not Empty and has lifetime 0 is run
\* through the stages of the cell update.
NoZeroLifetimeRun ==
    zeroRun = FALSE

(***************************************************************************)
(* The Empty record, the tick driver, files, symmetry and temperature.     *)
(***************************************************************************)
\* C11 (Empty record): the table's record for Empty is not movable, not
\* flammable and has default temperature 20, and every cell an erase has just
\* overwritten is Empty with temperature 20.
EraseIsAmbient ==
    /\ ~particleProps("EMPTY").movable
    /\ ~particleProps("EMPTY").flammable
    /\ particleProps("EMPTY").temperature = AMBIENT
    /\ (lastOp.op = "erase" /\ ~lastOp.mirror
          /\ IsValidPosition(lastOp.x, lastOp.y)) =>
           \A p \in Disc(lastOp.x, lastOp.y, lastOp.brush) :
               grid[p].type = "EMPTY" /\ grid[p].temperature = AMBIENT

\* Rows from the bottom one to the top one, each from left to right.
ScanOrder ==
    [i \in 1 .. GRID_WIDTH * GRID_HEIGHT |->
        <<(i - 1) % GRID_WIDTH, GRID_HEIGHT - 1 - ((i - 1) \div GRID_WIDTH)>>]

\* C12 (tick driver order): a tick clears the updated flag of every cell before
\* it visits any cell, and then calls the cell update once per grid position,
\* rows from y = GRID_HEIGHT - 1 up to y = 0 and each row from x = 0 to
\* x = GRID_WIDTH - 1.
TickOrder ==
    /\ Len(visits) <= GRID_WIDTH * GRID_HEIGHT
    /\ \A i \in 1 .. Len(visits) : visits[i] = ScanOrder[i]
    /\ (pc = "scan" /\ visits = <<>>) => \A p \in Pos : ~grid[p].updated
    /\ pc = "scan" => Len(visits) < GRID_WIDTH * GRID_HEIGHT
    /\ (pc = "idle" /\ ticks > 0) =>
           \A p \in Pos : Cardinality({i \in 1 .. Len(visits) : visits[i] = p}) = 1

\* The second tick of a falling Sand cell is complete.
TickOrderWitness ==
    /\ scen.kind = "gravity"
    /\ EmptyBelow >= 2
    /\ pc = "idle"
    /\ ticks = 2
    /\ Len(visits) = GRID_WIDTH * GRID_HEIGHT

\* Saves that may stop early, loads, and the ticks of the frames between.
NextFile ==
    \/ KeyS
    \/ KeySTruncated
    \/ KeyL
    \/ TickBegin
    \/ TickCell

SpecFile ==
    InitPersist /\ [][NextFile]_vars

\* Columns from the left one to the right one, each from top to bottom.
ColumnOrder ==
    [i \in 1 .. GRID_WIDTH * GRID_HEIGHT |->
        <<(i - 1) \div GRID_HEIGHT, (i - 1) % GRID_HEIGHT>>]

\* C13 (load and save failures): a save or load whose file cannot be opened
\* leaves the grid as it is; a load of a file that holds the first k records
\* of a saved grid, column by column, gives the first k cells in that order
\* their saved state and leaves every other cell as it was.
FileFailures ==
    [][/\ (ops' = ops + 1 /\ lastOp'.op \in {"save", "load"} /\ ~lastOp'.ok) =>
            grid' = grid
       /\ (ops' = ops + 1 /\ lastOp'.op = "load" /\ lastOp'.ok) =>
            \A i \in 1 .. GRID_WIDTH * GRID_HEIGHT :
                grid'[ColumnOrder[i]] =
                    IF i <= Len(file.data) THEN saved[ColumnOrder[i]]
                    ELSE grid[ColumnOrder[i]]]_vars

\* A load of a file that stops inside the second column, over a grid that a
\* tick has changed since the save on both sides of that point.
FileFailuresWitness ==
    /\ lastOp.op = "load"
    /\ lastOp.ok
    /\ Len(file.data) = GRID_HEIGHT + 2
    /\ \E i \in 1 .. Len(file.data) :
           grid[ColumnOrder[i]] = saved[ColumnOrder[i]]
           /\ grid[ColumnOrder[i]].temperature # AMBIENT
    /\ \E i \in Len(file.data) + 1 .. GRID_WIDTH * GRID_HEIGHT :
           grid[ColumnOrder[i]] # saved[ColumnOrder[i]]

\* The mirror image of a cell across the vertical midline of the grid.
Mirror(p) ==
    <<GRID_WIDTH - 1 - p[1], p[2]>>

\* The material kinds are mirror-symmetric.
Symmetric(g) ==
    \A p \in Pos : g[p].type = g[Mirror(p)].type

\* The cells a paint at (x, y) and its mirror image overwrite.
BothDiscs(x, y, r) ==
    IF IsValidPosition(x, y)
    THEN Disc(x, y, r) \cup Disc(GRID_WIDTH - 1 - x, y, r)
    ELSE {}

\* C14 (symmetry mode): with symmetry mode on, a paint or erase at (x, y) is
\* also applied at (GRID_WIDTH - 1 - x, y) with the same material and brush:
\* a cell is overwritten iff its mirror image is, a grid with mirror-symmetric
\* kinds stays so, and with x out of bounds nothing changes.
SymmetryMode ==
    [][(ops' = ops + 1 /\ lastOp'.op \in {"paint", "erase"} /\ lastOp'.mirror) =>
         LET over == BothDiscs(lastOp'.x, lastOp'.y, lastOp'.brush)
         IN /\ \A p \in Pos :
                  /\ p \in over <=> Mirror(p) \in over
                  /\ IF p \in over THEN Fresh(grid'[p], lastOp'.type)
                     ELSE grid'[p] = grid[p]
            /\ Symmetric(grid) => Symmetric(grid')
            /\ (lastOp'.x < 0 \/ lastOp'.x >= GRID_WIDTH) => grid' = grid]_vars

\* A paint of Sand at (1, 1) in symmetry mode: the cell (2, 4) is within the
\* brush of the mirror image only.
SymmetryWitness ==
    /\ lastOp.op = "paint"
    /\ lastOp.mirror
    /\ lastOp.type = "SAND"
    /\ lastOp.brush = 3
    /\ <<lastOp.x, lastOp.y>> = <<1, 1>>
    /\ <<2, 4>> \notin Disc(1, 1, 3)
    /\ grid[<<2, 4>>].type = "SAND"
    /\ grid[<<1, 4>>].type = "SAND"

\* A grid at 20 degrees but for one cell at 1000 that does not move: a Wall
\* cell at (1, 1), or a Lava cell that rests on the floor.
HotScenes ==
    {[Scene("hot", <<1, 1>>, <<1, 1>>, 0, TRUE) EXCEPT !.frames = MaxCoolTicks],
     [Scene("hot", <<GRID_WIDTH - 2, GRID_HEIGHT - 2>>,
            <<GRID_WIDTH - 2, GRID_HEIGHT - 2>>, 0, FALSE)
         EXCEPT !.frames = MaxCoolTicks]}

HotGrid(s) ==
    Put(InitializeGrid, s.x, s.y,
        [Placed(IF s.hot THEN "WALL" ELSE "LAVA")
            EXCEPT !.temperature = 1000 * TEMP_UNIT])

InitCool ==
    /\ Globals
    /\ file = NoFile
    /\ \E s \in HotScenes :
         /\ scen = s
         /\ grid = HotGrid(s)

SpecCool ==
    InitCool /\ [][NextScene]_vars

\* Within one cooling step of 20 degrees.
InBand(t) ==
    t >= AMBIENT - COOLING_RATE /\ t <= AMBIENT + COOLING_RATE

\* C15 (temperature convergence): the one cell at 1000 in a grid at 20 gets
\* cooler with every tick, without going below the band, until it is within
\* one cooling step of 20; from then on it stays within one cooling step of
\* 20, and it is there when MaxCoolTicks ticks are over.
TemperatureConvergence ==
    /\ []((scen.kind = "hot" /\ pc = "idle" /\ ticks = MaxCoolTicks) =>
             InBand(grid[<<scen.x, scen.y>>].temperature))
    /\ [][(scen.kind = "hot" /\ pc = "scan" /\ <<sx, sy>> = <<scen.x, scen.y>>) =>
             LET old == grid[<<sx, sy>>].temperature
                 new == grid'[<<sx, sy>>].temperature
             IN IF InBand(old) THEN InBand(new)
                ELSE new < old /\ new >= AMBIENT - COOLING_RATE]_vars

\* The hot cell has come into the band before the last tick and is in it
\* after the last tick.
ConvergenceWitness ==
    /\ scen.kind = "hot"
    /\ pc = "idle"
    /\ ticks = MaxCoolTicks
    /\ InBand(grid[<<scen.x, scen.y>>].temperature)
    /\ grid[<<scen.x, scen.y>>].temperature # AMBIENT

\* The temperature a cell gets when the mean is taken over the cell itself,
\* once, and its in-bounds neighbours.
BlendOverBlock(g, x, y) ==
    LET old == g[<<x, y>>].temperature
        count == Cardinality(Nbrs(x, y))
        blended == (SPREAD_NUM * SumTemperature(g, Nbrs(x, y))
                    + (SPREAD_DEN - SPREAD_NUM) * old * count)
                   \div (SPREAD_DEN * count)
    IN IF blended > AMBIENT THEN blended - COOLING_RATE
       ELSE IF blended < AMBIENT THEN blended + COOLING_RATE
       ELSE blended

\* C16 (mean divisor): the diffusion step of a cell takes the mean over the
\* cell's own temperature, counted once, and one term per in-bounds neighbour:
\* 9 terms for an interior cell, 6 on an edge, 4 in a corner.
MeanDivisor ==
    [][(scen.kind = "hot" /\ pc = "scan" /\ <<sx, sy>> = <<scen.x, scen.y>>) =>
          /\ TemperatureCount(sx, sy) = Cardinality(Nbrs(sx, sy))
          /\ grid'[<<sx, sy>>].temperature = BlendOverBlock(grid, sx, sy)]_vars

(***************************************************************************)
(* Water and Fire, the vacated position, moves and conservation.           *)
(***************************************************************************)
\* One Water cell at (x, y) and one Fire cell at (x2, y2) next to it, run for
\* MaxFrames ticks.
DouseScenes ==
    {[Scene("douse", pq[1], pq[2], 0, FALSE) EXCEPT !.frames = MaxFrames] :
        pq \in {c \in Interior \X Interior :
                   c[2] # c[1] /\ c[2] \in Nbrs(c[1][1], c[1][2])}}

DouseGrid(s) ==
    Put(Put(InitializeGrid, s.x, s.y, Placed("WATER")),
        s.x2, s.y2, Placed("FIRE"))

InitDouse ==
    /\ Globals
    /\ file = NoFile
    /\ \E s \in DouseScenes :
         /\ scen = s
         /\ grid = DouseGrid(s)

SpecDouse ==
    InitDouse /\ [][NextScene]_vars

\* C17 (Water extinguishes Fire): when a Water cell is updated (it is Water
\* and not yet updated when the scan visits it), every Fire cell among its 8
\* neighbours is Steam after that update, whatever is drawn at random and
\* whether or not the Water moves.
WaterDouses ==
    [][(pc = "scan" /\ grid[<<sx, sy>>].type = "WATER"
          /\ ~grid[<<sx, sy>>].updated) =>
         \A q \in Nbrs(sx, sy) :
             grid[q].type = "FIRE" => grid'[q].type = "STEAM"]_vars

\* The cells the particle at (sx, sy) has moved to in the step: Empty before
\* it, of the particle's kind after it.  Only a swap fills an Empty cell with
\* the kind of the cell that is updated.
MovedTo ==
    {t \in Nbrs(sx, sy) \ {<<sx, sy>>} :
        /\ pc = "scan"
        /\ grid[<<sx, sy>>].type # "EMPTY"
        /\ ~grid[<<sx, sy>>].updated
        /\ grid[t].type = "EMPTY"
        /\ grid'[t].type = grid[<<sx, sy>>].type
        /\ grid'[<<sx, sy>>].type = "EMPTY"}

\* C18 (vacated position): when the update of a cell moves it by a swap, the
\* record that is at the cell's old position after the swap is put through no
\* temperature diffusion, interaction or reaction in that update.
VacatedSkipped ==
    [][\A t \in MovedTo :
          /\ seen'[<<sx, sy>>].diffs = seen[t].diffs
          /\ grid'[<<sx, sy>>].temperature = grid[t].temperature]_vars

\* C19 (one move per tick): in a tick every particle (a cell that is not
\* Empty) is updated at most once and moves at most once, by at most one column
\* to either side and at most one row down, never up; so a Water or Oil cell
\* that spreads right, into a column the scan of its row has yet to visit, is
\* not updated or moved again there.
OneMovePerTick ==
    lastOp.op = "none" =>
        \A p \in Pos :
            grid[p].type # "EMPTY" =>
                /\ seen[p].entries <= 1
                /\ seen[p].moves <= 1
                /\ p[1] - seen[p].from[1] \in {-1, 0, 1}
                /\ p[2] - seen[p].from[2] \in {0, 1}
                /\ seen[p].moves = 0 <=> seen[p].from = p

\* A tick is over in which a Water or Oil cell spread one column to the right
\* and was updated once.
OneMoveWitness ==
    /\ lastOp.op = "none"
    /\ pc = "idle"
    /\ ticks = 1
    /\ \E p \in Pos :
           /\ grid[p].type \in {"WATER", "OIL"}
           /\ seen[p].from = <<p[1] - 1, p[2]>>
           /\ seen[p].entries = 1

\* A Sand cell at (x, y) and, elsewhere, a second cell at (x2, y2): Sand in
\* the kind "sandpile", Oil in the kind "oilpile".  Every cell is at 20 degrees
\* and has lifetime -1.
PileScenes ==
    {[Scene("pile", c[1], c[2], 0, FALSE) EXCEPT !.kind = c[3]] :
        c \in {d \in Interior \X Interior \X {"sandpile", "oilpile"} :
                  d[1] # d[2]}}

PileGrid(s) ==
    Put(Put(InitializeGrid, s.x, s.y, Placed("SAND")),
        s.x2, s.y2, Placed(IF s.kind = "sandpile" THEN "SAND" ELSE "OIL"))

InitPile ==
    /\ Globals
    /\ file = NoFile
    /\ \E s \in PileScenes :
         /\ scen = s
         /\ grid = PileGrid(s)

SpecPile ==
    InitPile /\ [][NextScene]_vars

\* The cells the movement step may exchange the cell at c with: the one
\* directly below; failing that, left and right for Water and Oil, and the two
\* diagonals below for Sand.
AllowedTargets(g, c) ==
    LET below == <<c[1], c[2] + 1>>
    IN IF below \in Pos /\ g[below].type = "EMPTY" THEN {below}
       ELSE IF g[c].type \in {"WATER", "OIL"}
            THEN {<<c[1] - 1, c[2]>>, <<c[1] + 1, c[2]>>} \cap Pos
       ELSE IF g[c].type = "SAND"
            THEN {<<c[1] - 1, c[2] + 1>>, <<c[1] + 1, c[2] + 1>>} \cap Pos
       ELSE {}

\* g2 is g with the full states of the cells c and t exchanged, c movable and
\* t Empty.
Exchanged(g, g2, c, t) ==
    /\ particleProps(g[c].type).movable
    /\ g[t].type = "EMPTY"
    /\ g2[c] = g[t]
    /\ g2[t] = g[c]
    /\ \A p \in Pos \ {c, t} : g2[p] = g[p]

\* The number of cells of each kind.
Census(g) ==
    [type \in ParticleType |-> Cardinality({p \in Pos : g[p].type = type})]

\* C20 (movement conserves particles): the movement step of any cell leaves
\* the grid as it is or exchanges the full state of the cell, which is movable,
\* with one Empty cell among those the cell's kind may move to; and in a grid
\* of Empty, Wall, Sand and Oil cells at 20 degrees with lifetime -1 the number
\* of cells of each kind stays what it was.
MovementConserves ==
    /\ \A c \in Pos, dir \in {-1, 1} :
           LET g2 == UpdatePhysics(grid, c[1], c[2], dir)
           IN \/ g2 = grid
              \/ \E t \in AllowedTargets(grid, c) : Exchanged(grid, g2, c, t)
    /\ scen.kind \in {"sandpile", "oilpile"} => Census(grid) = Census(PileGrid(scen))

\* Two Sand cells that started in one column lie side by side on the floor:
\* the upper one has slid down a diagonal.
ConservesWitness ==
    /\ scen.kind = "sandpile"
    /\ scen.x = scen.x2
    /\ pc = "idle"
    /\ ticks >= 1
    /\ CellsOf("SAND") = {<<1, GRID_HEIGHT - 2>>, <<2, GRID_HEIGHT - 2>>}

(***************************************************************************)
(* Conversions, and what an update does to the particle it moves.          *)
(***************************************************************************)
\* A cell of kind a, a neighbour of kind b, and the temperature of the grid:
\* the pairs for which an interaction or a reaction converts a cell.  At 1701
\* degrees resting Sand turns to Glass, at -5 degrees Water that a Wall cell
\* keeps from spreading turns to Ice.
ConvertPairs ==
    {<<"FIRE", "WOOD", AMBIENT>>, <<"WATER", "FIRE", AMBIENT>>,
     <<"LAVA", "WATER", AMBIENT>>, <<"ACID", "SAND", AMBIENT>>,
     <<"WATER", "SALT", AMBIENT>>, <<"SAND", "EMPTY", 1701 * TEMP_UNIT>>,
     <<"WATER", "WALL", (-5) * TEMP_UNIT>>}

\* The first cell at (x, y), its neighbour to the right or below at (x2, y2).
ConvertScenes ==
    {[kind |-> "convert", x |-> c[1][1], y |-> c[1][2],
      x2 |-> c[2][1], y2 |-> c[2][2], life |-> 0, hot |-> FALSE,
      frames |-> MaxTicks, a |-> c[3][1], b |-> c[3][2], temp |-> c[3][3]] :
        c \in {d \in Interior \X Interior \X ConvertPairs :
                  d[2] \in {<<d[1][1] + 1, d[1][2]>>, <<d[1][1], d[1][2] + 1>>}}}

\* Away from 20 degrees the whole grid has the scene's temperature; at 20
\* degrees the two cells have the default temperatures of their kinds.
ConvertGrid(s) ==
    LET base == IF s.temp = AMBIENT THEN InitializeGrid
                ELSE [p \in Pos |->
                        [InitializeGrid[p] EXCEPT !.temperature = s.temp]]
        at(type) == IF s.temp = AMBIENT THEN Placed(type)
                    ELSE [Placed(type) EXCEPT !.temperature = s.temp]
        first == Put(base, s.x, s.y, at(s.a))
    IN IF s.b = "EMPTY" THEN first ELSE Put(first, s.x2, s.y2, at(s.b))

InitConvert ==
    /\ Globals
    /\ file = NoFile
    /\ \E s \in ConvertScenes :
         /\ scen = s
         /\ grid = ConvertGrid(s)

SpecConvert ==
    InitConvert /\ [][NextScene]_vars

\* c2 is c with another kind and nothing else changed.
OnlyKindChanged(c, c2) ==
    c2 = [c EXCEPT !.type = c2.type]

\* C21 (conversions change only the kind): a cell that an interaction or a
\* reaction converts gets a new kind and keeps its lifetime, its temperature
\* and its updated flag: a neighbour of the cell that is updated (Fire to
\* Steam, Water to Steam, flammable to Fire, Empty to Smoke, dissolved to
\* Empty, Salt to Empty) and the cell itself in its interaction and reaction
\* stages (Water to Ice, Lava to Metal, Sand to Glass).
ConversionsKeepFields ==
    /\ [](\A c \in Pos :
             LET g2 == ProcessChemicalReactions(
                          HandleParticleInteractions(grid, c[1], c[2], {}, FALSE),
                          c[1], c[2])
             IN g2[c].type # grid[c].type => OnlyKindChanged(grid[c], g2[c]))
    /\ [][pc = "scan" =>
             \A p \in Pos \ ({<<sx, sy>>} \cup MovedTo) :
                 grid'[p].type # grid[p].type =>
                     OnlyKindChanged(grid[p], grid'[p])]_vars

\* Fire that was Wood when the tick began and has Wood's lifetime, not the
\* lifetime a Fire cell is placed with.
ConversionsWitness ==
    /\ scen.kind = "convert"
    /\ scen.b = "WOOD"
    /\ grid[<<scen.x2, scen.y2>>].type = "FIRE"
    /\ grid[<<scen.x2, scen.y2>>].lifetime = particleProps("WOOD").lifetime
    /\ particleProps("WOOD").lifetime # particleProps("FIRE").lifetime

\* The cells the particle at (sx, sy) is at after the step, if the step has
\* moved it: the history of the particle that entered the pipeline is there,
\* with one move more.
MovedBySwap ==
    {t \in Nbrs(sx, sy) \ {<<sx, sy>>} :
        /\ pc = "scan"
        /\ ~grid[<<sx, sy>>].updated
        /\ seen'[t].from = seen[<<sx, sy>>].from
        /\ seen'[t].entries = seen[<<sx, sy>>].entries + 1
        /\ seen'[t].moves = seen[<<sx, sy>>].moves + 1}

\* C22 (a particle that moves is otherwise untouched): when the movement
\* stage of an update swaps the particle away, the temperature, interaction and
\* reaction stages of that update run at the original (x, y), on the record
\* that came in, and the moved particle has the temperature and the kind it had
\* before the update.
MovedUntouched ==
    [][\A t \in MovedBySwap :
          /\ grid'[t].type = grid[<<sx, sy>>].type
          /\ grid'[t].temperature = grid[<<sx, sy>>].temperature
          /\ seen'[t].diffs = seen[<<sx, sy>>].diffs
          /\ seen'[<<sx, sy>>].diffs = seen[t].diffs + 1]_vars

\* After one tick a Sand cell that began at 1701 degrees among cells at 20 is
\* one row lower, Sand, and at 1701 degrees.
MovedUntouchedWitness ==
    /\ scen.kind = "glass"
    /\ ~scen.hot
    /\ pc = "idle"
    /\ ticks = 1
    /\ grid[<<scen.x, scen.y + 1>>].type = "SAND"
    /\ grid[<<scen.x, scen.y + 1>>].temperature = 1701 * TEMP_UNIT
    /\ seen[<<scen.x, scen.y + 1>>].from = <<scen.x, scen.y>>
====
